---- MODULE Spec2Model ----
(***************************************************************************)
(* Model of the two MCP client sample scripts                              *)
(*   Python/New/MCP-Client/mcp-custom-create.py           ("create")        *)
(*   Python/New/MCP-Client/mcp-microsoft-learn-existing.py ("existing")     *)
(* Each script is a straight-line session: read configuration, acquire the *)
(* credential and the two clients in one with statement, create or get the *)
(* agent, create a conversation, submit the prompt, scan the response for  *)
(* MCP approval requests, resubmit the approvals, leave the with block.    *)
(***************************************************************************)
EXTENDS Integers, Sequences, FiniteSets, TLC

\* ------------------------------------------------------------------ bounds
\* longest output sequence of the first response
MaxOutput == 2

\* ------------------------------------------------------- values of the code
None == "None"

Scripts == {"create", "existing"}

ENDPOINT_KEY == "AZURE_AI_PROJECT_ENDPOINT"
AGENT_NAME_KEY == "AZURE_AI_AGENT_NAME"
BEARER_TOKEN_KEY == "CUSTOM_MCP_BEARER_TOKEN"
MODEL_KEY == "AZURE_AI_MODEL_DEPLOYMENT_NAME"

EnvKeys == {ENDPOINT_KEY, AGENT_NAME_KEY, BEARER_TOKEN_KEY, MODEL_KEY}

\* os.environ[k] of a key that is present
EnvValue(k) == "value-of-" \o k

\* the server_label each script compares against
ServerLabel(s) == IF s = "create" THEN "custom-mcp-bearer" ELSE "microsoft-learn-mcp"

\* the prompt of the first submission
Prompt(s) ==
    IF s = "create" THEN "multiply 10 and 20"
    ELSE "Please summarize latest features of Azure Cosmos DB from Microsoft Learn."

CreatedAgentName == "FoundryNew-MCP-CustomAgent"

Resources == {"credential", "project_client", "openai_client"}

\* ------------------------------------------- what the service can send back
Labels == {"custom-mcp-bearer", "microsoft-learn-mcp"}
ItemIds == {None, "", "r1", "r2"}
RespIds == {"resp_a", "resp_b"}
ConvIds == {"conv_1"}

ApprovalRequestItems ==
    [type : {"mcp_approval_request"}, server_label : Labels, id : ItemIds]
McpCallItems == [type : {"mcp_call"}, server_label : Labels, id : {"r1"}]
MessageItems == [type : {"message"}, id : {"r2"}]
OutputItems == ApprovalRequestItems \cup McpCallItems \cup MessageItems

SeqsUpTo(S, n) == UNION {[1..k -> S] : k \in 0..n}

\* the output of the final response: empty or a single item of any kind
FinalOutputs == {<<>>} \cup {<<it>> : it \in OutputItems}

NoResponse == [id |-> None, output |-> <<>>]
NoError == [kind |-> "none", at |-> "none", key |-> None]

VARIABLES
    script,        \* which of the two scripts runs
    env,           \* the environment keys that are set (after load_dotenv)
    pc,            \* position in the script
    endpoint,      \* module variable endpoint
    agent_name,    \* module variable agent_name (existing script)
    mcp_tool,      \* MCPTool built by the create script
    entered,       \* how often each context manager was entered
    exited,        \* how often each context manager was exited
    agent,         \* agent.name
    conversation,  \* conversation.id
    response,      \* the variable response (assigned twice)
    input_list,    \* the approvals list
    idx,           \* position of the for loop in response.output
    calls,         \* the remote calls issued so far, in order
    responses,     \* history: the responses the service returned, in order
    scans,         \* history: how often the approval scan was started
    error          \* the exception propagating out of the script

vars == <<script, env, pc, endpoint, agent_name, mcp_tool, entered, exited, agent,
          conversation, response, input_list, idx, calls, responses, scans, error>>

Init ==
    /\ script \in Scripts
    /\ env \in SUBSET EnvKeys
    /\ pc = "read_endpoint"
    /\ endpoint = None
    /\ agent_name = None
    /\ mcp_tool = None
    /\ entered = [r \in Resources |-> 0]
    /\ exited = [r \in Resources |-> 0]
    /\ agent = None
    /\ conversation = None
    /\ response = NoResponse
    /\ input_list = <<>>
    /\ idx = 0
    /\ calls = <<>>
    /\ responses = <<>>
    /\ scans = 0
    /\ error = NoError

\* ------------------------------------------------ exceptions and the with
\* where an exception raised now lands: the innermost context manager that
\* was entered is exited first; outside the with nothing is left to exit
\* mutant: no with statement, an exception leaves without exiting anything
UnwindTarget_NoCleanup == "terminated"

UnwindTarget ==
    IF entered["openai_client"] > exited["openai_client"] THEN "exit_openai_client"
    ELSE IF entered["project_client"] > exited["project_client"] THEN "exit_project_client"
    ELSE IF entered["credential"] > exited["credential"] THEN "exit_credential"
    ELSE "terminated"

Raise(kind, key) ==
    /\ error' = [kind |-> kind, at |-> pc, key |-> key]
    /\ pc' = UnwindTarget

\* a remote call record
Call(op, conv, inp, prev, ag) ==
    [op |-> op, conversation |-> conv, input |-> inp,
     previous_response_id |-> prev, agent |-> ag]

\* ------------------------------------------------------------ configuration
ReadEndpoint ==
    /\ pc = "read_endpoint"
    /\ IF ENDPOINT_KEY \in env
       THEN /\ endpoint' = EnvValue(ENDPOINT_KEY)
            /\ pc' = IF script = "existing" THEN "read_agent_name" ELSE "enter_credential"
            /\ UNCHANGED error
       ELSE /\ Raise("KeyError", ENDPOINT_KEY)
            /\ UNCHANGED endpoint
    /\ UNCHANGED <<script, env, agent_name, mcp_tool, entered, exited, agent, conversation,
                   response, input_list, idx, calls, responses, scans>>

ReadAgentName ==
    /\ pc = "read_agent_name"
    /\ IF AGENT_NAME_KEY \in env
       THEN /\ agent_name' = EnvValue(AGENT_NAME_KEY)
            /\ pc' = "enter_credential"
            /\ UNCHANGED error
       ELSE /\ Raise("KeyError", AGENT_NAME_KEY)
            /\ UNCHANGED agent_name
    /\ UNCHANGED <<script, env, endpoint, mcp_tool, entered, exited, agent, conversation,
                   response, input_list, idx, calls, responses, scans>>

\* ------------------------------------------------------- the with statement
\* one item of the with header: the expression is evaluated and entered, or
\* it raises and the items entered before it are exited
Enter(r, here, next) ==
    /\ pc = here
    /\ \/ /\ entered' = [entered EXCEPT ![r] = @ + 1]
          /\ pc' = next
          /\ UNCHANGED error
       \/ /\ Raise("AcquisitionError", None)
          /\ UNCHANGED entered
    /\ UNCHANGED <<script, env, endpoint, agent_name, mcp_tool, exited, agent, conversation,
                   response, input_list, idx, calls, responses, scans>>

EnterCredential == Enter("credential", "enter_credential", "enter_project_client")

EnterProjectClient == Enter("project_client", "enter_project_client", "enter_openai_client")

EnterOpenAIClient ==
    Enter("openai_client", "enter_openai_client",
          IF script = "create" THEN "declare_tool" ELSE "agent_call")

Exit(r, here, next) ==
    /\ pc = here
    /\ exited' = [exited EXCEPT ![r] = @ + 1]
    /\ pc' = next
    /\ UNCHANGED <<script, env, endpoint, agent_name, mcp_tool, entered, agent, conversation,
                   response, input_list, idx, calls, responses, scans, error>>

ExitOpenAIClient == Exit("openai_client", "exit_openai_client", "exit_project_client")

ExitProjectClient == Exit("project_client", "exit_project_client", "exit_credential")

ExitCredential == Exit("credential", "exit_credential", "terminated")

\* ------------------------------------------------------------ agent set-up
\* create script only: MCPTool(...) with the bearer token read from the environment
DeclareTool ==
    /\ pc = "declare_tool"
    /\ IF BEARER_TOKEN_KEY \in env
       THEN /\ mcp_tool' = [server_label |-> "custom-mcp-bearer",
                            require_approval |-> "never",
                            authorization |-> "Bearer " \o EnvValue(BEARER_TOKEN_KEY)]
            /\ pc' = "agent_call"
            /\ UNCHANGED error
       ELSE /\ Raise("KeyError", BEARER_TOKEN_KEY)
            /\ UNCHANGED mcp_tool
    /\ UNCHANGED <<script, env, endpoint, agent_name, entered, exited, agent, conversation,
                   response, input_list, idx, calls, responses, scans>>

\* mutant: the model deployment name is read with a default instead of
\* os.environ[...], so an absent key no longer stops the call
AgentCall_DefaultModel ==
    /\ pc = "agent_call"
    /\ calls' = Append(calls,
           IF script = "create"
           THEN Call("agents.create_version", None,
                     IF MODEL_KEY \in env THEN EnvValue(MODEL_KEY) ELSE None, None,
                     CreatedAgentName)
           ELSE Call("agents.get", None, None, None, agent_name))
    /\ pc' = "await_agent"
    /\ UNCHANGED <<script, env, endpoint, agent_name, mcp_tool, entered, exited, agent,
                   conversation, response, input_list, idx, responses, scans, error>>

\* create: the arguments of agents.create_version are evaluated (the model
\* deployment name is read from the environment), then the call is issued;
\* existing: agents.get(agent_name) is issued
AgentCall ==
    /\ pc = "agent_call"
    /\ IF script = "create" /\ MODEL_KEY \notin env
       THEN /\ Raise("KeyError", MODEL_KEY)
            /\ UNCHANGED calls
       ELSE /\ calls' = Append(calls,
                   IF script = "create"
                   THEN Call("agents.create_version", None, EnvValue(MODEL_KEY), None,
                             CreatedAgentName)
                   ELSE Call("agents.get", None, None, None, agent_name))
            /\ pc' = "await_agent"
            /\ UNCHANGED error
    /\ UNCHANGED <<script, env, endpoint, agent_name, mcp_tool, entered, exited, agent,
                   conversation, response, input_list, idx, responses, scans>>

\* mutant: the failure of the agent call is caught and recorded, and the
\* script carries on
AgentReturn_Swallow ==
    /\ pc = "await_agent"
    /\ \/ /\ agent' = calls[Len(calls)].agent
          /\ UNCHANGED error
       \/ /\ error' = [kind |-> "RemoteCallError", at |-> pc, key |-> None]
          /\ UNCHANGED agent
    /\ pc' = "conversation_call"
    /\ UNCHANGED <<script, env, endpoint, agent_name, mcp_tool, entered, exited, conversation,
                   response, input_list, idx, calls, responses, scans>>

AgentReturn ==
    /\ pc = "await_agent"
    /\ \/ /\ agent' = calls[Len(calls)].agent
          /\ pc' = "conversation_call"
          /\ UNCHANGED error
       \/ /\ Raise("RemoteCallError", None)
          /\ UNCHANGED agent
    /\ UNCHANGED <<script, env, endpoint, agent_name, mcp_tool, entered, exited, conversation,
                   response, input_list, idx, calls, responses, scans>>

\* ------------------------------------------------------------ conversation
ConversationCall ==
    /\ pc = "conversation_call"
    /\ calls' = Append(calls, Call("conversations.create", None, None, None, None))
    /\ pc' = "await_conversation"
    /\ UNCHANGED <<script, env, endpoint, agent_name, mcp_tool, entered, exited, agent,
                   conversation, response, input_list, idx, responses, scans, error>>

ConversationReturn ==
    /\ pc = "await_conversation"
    /\ \/ /\ \E c \in ConvIds : conversation' = c
          /\ pc' = "first_submit"
          /\ UNCHANGED error
       \/ /\ Raise("RemoteCallError", None)
          /\ UNCHANGED conversation
    /\ UNCHANGED <<script, env, endpoint, agent_name, mcp_tool, entered, exited, agent,
                   response, input_list, idx, calls, responses, scans>>

\* ------------------------------------------------------- first submission
\* mutant: the first submission is not attached to the conversation
FirstSubmit_NoConversation ==
    /\ pc = "first_submit"
    /\ calls' = Append(calls, Call("responses.create", None, Prompt(script), None, agent))
    /\ pc' = "await_first"
    /\ UNCHANGED <<script, env, endpoint, agent_name, mcp_tool, entered, exited, agent,
                   conversation, response, input_list, idx, responses, scans, error>>

FirstSubmit ==
    /\ pc = "first_submit"
    /\ calls' = Append(calls, Call("responses.create", conversation, Prompt(script), None, agent))
    /\ pc' = "await_first"
    /\ UNCHANGED <<script, env, endpoint, agent_name, mcp_tool, entered, exited, agent,
                   conversation, response, input_list, idx, responses, scans, error>>

\* the first response arrives and the scan is set up (input_list = [], the
\* for loop starts at the first output item), or the call raises
FirstReturn ==
    /\ pc = "await_first"
    /\ \/ /\ \E rid \in RespIds, out \in SeqsUpTo(OutputItems, MaxOutput) :
                /\ response' = [id |-> rid, output |-> out]
                /\ responses' = Append(responses, [id |-> rid, output |-> out])
          /\ input_list' = <<>>
          /\ idx' = 1
          /\ scans' = scans + 1
          /\ pc' = "scan"
          /\ UNCHANGED error
       \/ /\ Raise("RemoteCallError", None)
          /\ UNCHANGED <<response, responses, input_list, idx, scans>>
    /\ UNCHANGED <<script, env, endpoint, agent_name, mcp_tool, entered, exited, agent,
                   conversation, calls>>

\* ------------------------------------------------------- the approval scan
\* Python truth value of item.id
Truthy(v) == v \notin {None, ""}

HasAttr(item, a) == a \in DOMAIN item

\* mutant: the server_label comparison is missing
ItemCheck_AnyLabel(item, label) ==
    IF ~HasAttr(item, "type") THEN "raise"
    ELSE IF item.type # "mcp_approval_request" THEN "skip"
    ELSE IF ~HasAttr(item, "id") THEN "raise"
    ELSE IF Truthy(item.id) THEN "append"
    ELSE "skip"

\* mutant: the outer if on item.type is missing
ItemCheck_NoTypeCheck(item, label) ==
    IF ~HasAttr(item, "server_label") THEN "raise"
    ELSE IF item.server_label # label THEN "skip"
    ELSE IF ~HasAttr(item, "id") THEN "raise"
    ELSE IF Truthy(item.id) THEN "append"
    ELSE "skip"

\* what the body of the for loop does with one item: the two nested ifs,
\* evaluated left to right with short-circuit; reading an attribute the item
\* does not have raises
ItemCheck(item, label) ==
    IF ~HasAttr(item, "type") THEN "raise"
    ELSE IF item.type # "mcp_approval_request" THEN "skip"
    ELSE IF ~HasAttr(item, "server_label") THEN "raise"
    ELSE IF item.server_label # label THEN "skip"
    ELSE IF ~HasAttr(item, "id") THEN "raise"
    ELSE IF Truthy(item.id) THEN "append"
    ELSE "skip"

McpApprovalResponse(id) ==
    [type |-> "mcp_approval_response", approve |-> TRUE, approval_request_id |-> id]

\* mutant: an approval whose id is already in the list is not added again
ListAppend_Dedup(list, x) ==
    IF \E k \in 1..Len(list) : list[k] = x THEN list ELSE Append(list, x)

\* input_list.append(x)
ListAppend(list, x) == Append(list, x)

\* one iteration of the for loop
ScanStep ==
    /\ pc = "scan"
    /\ idx <= Len(response.output)
    /\ LET item == response.output[idx]
           verdict == ItemCheck(item, ServerLabel(script))
       IN  IF verdict = "raise"
           THEN /\ Raise("AttributeError", None)
                /\ UNCHANGED <<input_list, idx>>
           ELSE /\ input_list' = IF verdict = "append"
                                 THEN ListAppend(input_list, McpApprovalResponse(item.id))
                                 ELSE input_list
                /\ idx' = idx + 1
                /\ UNCHANGED <<pc, error>>
    /\ UNCHANGED <<script, env, endpoint, agent_name, mcp_tool, entered, exited, agent,
                   conversation, response, calls, responses, scans>>

\* ------------------------------------------------------ second submission
\* mutant: nothing is resubmitted when there is nothing to approve
Resubmit_SkipEmpty ==
    /\ pc = "scan"
    /\ idx > Len(response.output)
    /\ IF input_list = <<>>
       THEN /\ pc' = "exit_openai_client"
            /\ UNCHANGED calls
       ELSE /\ calls' = Append(calls,
                   Call("responses.create", None, input_list, response.id, agent))
            /\ pc' = "await_second"
    /\ UNCHANGED <<script, env, endpoint, agent_name, mcp_tool, entered, exited, agent,
                   conversation, response, input_list, idx, responses, scans, error>>

\* mutant: the resubmission continues the conversation instead of chaining
\* to the first response
Resubmit_ByConversation ==
    /\ pc = "scan"
    /\ idx > Len(response.output)
    /\ calls' = Append(calls, Call("responses.create", conversation, input_list, None, agent))
    /\ pc' = "await_second"
    /\ UNCHANGED <<script, env, endpoint, agent_name, mcp_tool, entered, exited, agent,
                   conversation, response, input_list, idx, responses, scans, error>>

\* the loop is exhausted: the list is printed and the second
\* responses.create is issued
Resubmit ==
    /\ pc = "scan"
    /\ idx > Len(response.output)
    /\ calls' = Append(calls, Call("responses.create", None, input_list, response.id, agent))
    /\ pc' = "await_second"
    /\ UNCHANGED <<script, env, endpoint, agent_name, mcp_tool, entered, exited, agent,
                   conversation, response, input_list, idx, responses, scans, error>>

\* mutant: a final response that asks for approvals again starts a second
\* round of scanning
SecondReturn_Loop ==
    /\ pc = "await_second"
    /\ \/ /\ \E rid \in RespIds, out \in FinalOutputs :
                /\ response' = [id |-> rid, output |-> out]
                /\ responses' = Append(responses, [id |-> rid, output |-> out])
                /\ IF scans < 2 /\ \E k \in 1..Len(out) : out[k].type = "mcp_approval_request"
                   THEN /\ pc' = "scan"
                        /\ idx' = 1
                        /\ input_list' = <<>>
                        /\ scans' = scans + 1
                   ELSE /\ pc' = "exit_openai_client"
                        /\ UNCHANGED <<idx, input_list, scans>>
          /\ UNCHANGED error
       \/ /\ Raise("RemoteCallError", None)
          /\ UNCHANGED <<response, responses, idx, input_list, scans>>
    /\ UNCHANGED <<script, env, endpoint, agent_name, mcp_tool, entered, exited, agent,
                   conversation, calls>>

\* the final response arrives, its text is printed and the with block is
\* left, or the call raises
SecondReturn ==
    /\ pc = "await_second"
    /\ \/ /\ \E rid \in RespIds, out \in FinalOutputs :
                /\ response' = [id |-> rid, output |-> out]
                /\ responses' = Append(responses, [id |-> rid, output |-> out])
          /\ pc' = "exit_openai_client"
          /\ UNCHANGED error
       \/ /\ Raise("RemoteCallError", None)
          /\ UNCHANGED <<response, responses>>
    /\ UNCHANGED <<script, env, endpoint, agent_name, mcp_tool, entered, exited, agent,
                   conversation, input_list, idx, calls, scans>>

\* ------------------------------------------------------------ specification
Next ==
    \/ ReadEndpoint
    \/ ReadAgentName
    \/ EnterCredential
    \/ EnterProjectClient
    \/ EnterOpenAIClient
    \/ DeclareTool
    \/ AgentCall
    \/ AgentReturn
    \/ ConversationCall
    \/ ConversationReturn
    \/ FirstSubmit
    \/ FirstReturn
    \/ ScanStep
    \/ Resubmit
    \/ SecondReturn
    \/ ExitOpenAIClient
    \/ ExitProjectClient
    \/ ExitCredential

Spec == Init /\ [][Next]_vars

\* =================================================================== claims
\* vocabulary of the claims, written independently of the scan's code
ExpectedLabel == ServerLabel(script)

IsApprovalRequest(item) == item.type = "mcp_approval_request"

\* an approval request for the given label that carries a non-empty id
IsMatchingRequest(item, label) ==
    /\ IsApprovalRequest(item)
    /\ item.server_label = label
    /\ item.id # None
    /\ item.id # ""

ApprovalFor(id) ==
    [type |-> "mcp_approval_response", approve |-> TRUE, approval_request_id |-> id]

\* the stable filter of an output sequence, as a list of approvals
StableFilter(out, label) ==
    LET Test(item) == IsMatchingRequest(item, label)
        kept == SelectSeq(out, Test)
    IN  [k \in 1..Len(kept) |-> ApprovalFor(kept[k].id)]

SubmitCalls == {c \in 1..Len(calls) : calls[c].op = "responses.create"}

ConversationCalls == {c \in 1..Len(calls) : calls[c].op = "conversations.create"}

AgentCalls == {c \in 1..Len(calls) : calls[c].op \in {"agents.create_version", "agents.get"}}

\* the scan of the first response has run to its end
ScanFinished == Len(responses) >= 1 /\ pc # "scan" /\ error.kind # "AttributeError"

\* the second responses.create has been issued (calls are issued in script order)
Resubmitted == Cardinality(SubmitCalls) >= 2

TheResubmission == calls[CHOOSE c \in SubmitCalls : \A d \in SubmitCalls : d <= c]

TheFirstSubmission == calls[CHOOSE c \in SubmitCalls : \A d \in SubmitCalls : c <= d]

\* C1: every approval in the approvals list, and every approval sent in the
\* second submission, answers an approval request of the first response that
\* carries the script's server label; none is made up or answers a request
\* for another label.
C1_Backed(a) ==
    /\ Len(responses) >= 1
    /\ \E i \in 1..Len(responses[1].output) :
          LET item == responses[1].output[i]
          IN  /\ IsApprovalRequest(item)
              /\ item.server_label = ExpectedLabel
              /\ item.id = a.approval_request_id

C1_ApprovalsAnswerRequests ==
    /\ \A k \in 1..Len(input_list) : C1_Backed(input_list[k])
    /\ Resubmitted =>
          \A k \in 1..Len(TheResubmission.input) : C1_Backed(TheResubmission.input[k])

\* the resubmission carried an approval while the first response also held
\* a request for another label
C1_Witness ==
    /\ pc = "terminated"
    /\ Resubmitted
    /\ Len(TheResubmission.input) = 1
    /\ \E i \in 1..Len(responses[1].output) :
          /\ IsApprovalRequest(responses[1].output[i])
          /\ responses[1].output[i].server_label # ExpectedLabel
          /\ Truthy(responses[1].output[i].id)

\* C2: the scan computes the stable filter of the output: one approval with
\* approve = TRUE per matching request with a non-empty id, in input order,
\* without deduplication, so as many approvals as matching items.
C2_StableFilter ==
    /\ pc = "scan" =>
          input_list = StableFilter(SubSeq(response.output, 1, idx - 1), ExpectedLabel)
    /\ ScanFinished =>
          /\ input_list = StableFilter(responses[1].output, ExpectedLabel)
          /\ Len(input_list) =
                Cardinality({i \in 1..Len(responses[1].output) :
                                IsMatchingRequest(responses[1].output[i], ExpectedLabel)})
          /\ \A k \in 1..Len(input_list) : input_list[k].approve = TRUE

\* two matching requests with the same id gave two approvals
C2_Witness ==
    /\ ScanFinished
    /\ Len(input_list) = 2
    /\ input_list[1] = input_list[2]

\* C3: an item that is no approval request, a request for another label
\* (with or without an id) and a request with an empty or missing id add no
\* approval and raise nothing; a response without approval requests gives
\* the empty list.
C3_Skipped(item) ==
    \/ ~IsApprovalRequest(item)
    \/ item.server_label # ExpectedLabel
    \/ item.id = None
    \/ item.id = ""

C3_SkipStep ==
    (pc = "scan" /\ idx <= Len(response.output) /\ C3_Skipped(response.output[idx]))
        => (input_list' = input_list /\ error' = NoError /\ pc' = "scan" /\ idx' = idx + 1)

C3_SkippedItemsContributeNothing ==
    /\ [][C3_SkipStep]_vars
    /\ [](error.kind # "AttributeError")
    /\ []((ScanFinished /\ \A i \in 1..Len(responses[1].output) :
                              ~IsApprovalRequest(responses[1].output[i]))
             => input_list = <<>>)

\* a request for another label with an id and a matching request with an
\* empty id were both scanned and nothing was approved
C3_Witness ==
    /\ ScanFinished
    /\ error = NoError
    /\ input_list = <<>>
    /\ Len(responses[1].output) = 2
    /\ IsApprovalRequest(responses[1].output[1])
    /\ responses[1].output[1].server_label # ExpectedLabel
    /\ Truthy(responses[1].output[1].id)
    /\ IsApprovalRequest(responses[1].output[2])
    /\ responses[1].output[2].server_label = ExpectedLabel
    /\ responses[1].output[2].id = ""

\* C4: once the first submission has returned, the resubmission step issues
\* exactly one create-response call, also for an empty approvals list.
C4_ExactlyOneResubmission ==
    /\ Cardinality(SubmitCalls) <= 2
    /\ pc = "scan" => Cardinality(SubmitCalls) = 1
    /\ (Len(responses) >= 1 /\ pc # "scan") => Cardinality(SubmitCalls) = 2

\* the session ended after resubmitting an empty list
C4_Witness ==
    /\ pc = "terminated"
    /\ Len(responses) = 2
    /\ input_list = <<>>
    /\ Cardinality(SubmitCalls) = 2
    /\ TheResubmission.input = <<>>

\* C5: the session goes Created, AwaitingInitialResponse, FilteringApprovals,
\* AwaitingFinalResponse, Done, one step forward at a time and never back;
\* the filter runs once and there is no third submission, also when the
\* final response holds approval requests.
Phase ==
    IF error # NoError THEN "Aborted"
    ELSE IF pc = "await_first" THEN "AwaitingInitialResponse"
    ELSE IF pc = "scan" THEN "FilteringApprovals"
    ELSE IF pc = "await_second" THEN "AwaitingFinalResponse"
    ELSE IF pc \in {"exit_openai_client", "exit_project_client", "exit_credential",
                    "terminated"} THEN "Done"
    ELSE "Created"

PhaseRank(ph) ==
    CASE ph = "Created" -> 0
      [] ph = "AwaitingInitialResponse" -> 1
      [] ph = "FilteringApprovals" -> 2
      [] ph = "AwaitingFinalResponse" -> 3
      [] ph = "Done" -> 4
      [] OTHER -> 5

C5_LinearStep ==
    \/ Phase' = Phase
    \/ Phase' = "Aborted" /\ Phase # "Done"
    \/ Phase # "Aborted" /\ Phase' # "Aborted" /\ PhaseRank(Phase') = PhaseRank(Phase) + 1

C5_LinearSession ==
    /\ [][C5_LinearStep]_vars
    /\ [](scans <= 1 /\ Cardinality(SubmitCalls) <= 2)
    /\ [](Phase = "Done" => (scans = 1 /\ Cardinality(SubmitCalls) = 2))

\* the session is done after a final response that asked for an approval again
C5_Witness ==
    /\ pc = "terminated"
    /\ error = NoError
    /\ Len(responses) = 2
    /\ Len(responses[2].output) = 1
    /\ IsMatchingRequest(responses[2].output[1], ExpectedLabel)
    /\ scans = 1
    /\ Cardinality(SubmitCalls) = 2

\* the configuration keys a script reads
RequiredKeys(s) ==
    IF s = "create" THEN {ENDPOINT_KEY, BEARER_TOKEN_KEY, MODEL_KEY}
    ELSE {ENDPOINT_KEY, AGENT_NAME_KEY}

\* the keys read before the with statement
KeysReadFirst(s) ==
    IF s = "create" THEN {ENDPOINT_KEY} ELSE {ENDPOINT_KEY, AGENT_NAME_KEY}

RequiredKeyAbsent == RequiredKeys(script) \ env # {}

NothingAcquired == \A r \in Resources : entered[r] = 0

\* C6 as stated: with a required key absent the session fails with a
\* configuration error before any remote call and before the credential and
\* the clients are acquired.
C6_FailsBeforeAcquisition ==
    RequiredKeyAbsent =>
        /\ calls = <<>>
        /\ NothingAcquired
        /\ pc = "terminated" => error.kind = "KeyError"

\* C6 amended: with a required key absent the session issues no remote call
\* and ends in failure, a configuration error unless acquiring the
\* credential or a client fails first; an absent endpoint or (retrieval
\* script) agent name fails before anything is acquired, an absent bearer
\* token or model deployment name (create script) only after the credential
\* and both clients were acquired.
C6_FailsBeforeRemoteCall ==
    RequiredKeyAbsent =>
        /\ calls = <<>>
        /\ pc = "terminated" => error.kind \in {"KeyError", "AcquisitionError"}
        /\ error.kind = "KeyError" => error.key \in RequiredKeys(script) \ env
        /\ (KeysReadFirst(script) \ env # {}) =>
              (NothingAcquired /\ (pc = "terminated" => error.kind = "KeyError"))
        /\ (error.kind = "KeyError" /\ error.key \notin KeysReadFirst(script)) =>
              \A r \in Resources : entered[r] = 1

\* the create script ended on the absent bearer token, after acquiring the
\* credential and both clients and without a remote call
C6_Witness ==
    /\ pc = "terminated"
    /\ script = "create"
    /\ error.kind = "KeyError"
    /\ error.key = BEARER_TOKEN_KEY
    /\ \A r \in Resources : entered[r] = 1
    /\ calls = <<>>

\* C7: the credential, the project client and the response client are each
\* acquired at most once, and each one acquired has been released when the
\* session has ended, whether it completed or a call or the scan failed.
C7_AcquiredOnceAndReleased ==
    \A r \in Resources :
        /\ entered[r] <= 1
        /\ exited[r] <= entered[r]
        /\ pc = "terminated" => exited[r] = entered[r]

\* the first submission failed and all three were released
C7_Witness ==
    /\ pc = "terminated"
    /\ error.kind = "RemoteCallError"
    /\ error.at = "await_first"
    /\ \A r \in Resources : entered[r] = 1 /\ exited[r] = 1

\* C8: a failing remote call aborts the session at that call: no remote call
\* is issued afterwards, none is repeated, and the failure stays the error
\* the session ends with.
C8_AbortStep ==
    /\ error # NoError => (calls' = calls /\ error' = error)
    /\ (error = NoError /\ error'.kind = "RemoteCallError") =>
          /\ pc \in {"await_agent", "await_conversation", "await_first", "await_second"}
          /\ error'.at = pc
          /\ calls' = calls
          /\ pc' \in {"exit_openai_client", "exit_project_client", "exit_credential",
                      "terminated"}

C8_AbortOnFirstFailure ==
    /\ [][C8_AbortStep]_vars
    /\ [](/\ Cardinality(AgentCalls) <= 1
          /\ Cardinality(ConversationCalls) <= 1
          /\ Cardinality(SubmitCalls) <= 2)

\* the conversation call failed and the session ended with that failure and
\* without a further call
C8_Witness ==
    /\ pc = "terminated"
    /\ error.kind = "RemoteCallError"
    /\ error.at = "await_conversation"
    /\ Len(calls) = 2

C10_ResubmissionArguments ==
    Resubmitted =>
        /\ TheResubmission.input = input_list
        /\ TheResubmission.previous_response_id = responses[1].id
        /\ TheResubmission.agent = TheFirstSubmission.agent
        /\ TheResubmission.agent = agent

\* two approvals were resubmitted and the final response has another id
\* than the first
C10_Witness ==
    /\ pc = "terminated"
    /\ error = NoError
    /\ Len(TheResubmission.input) = 2
    /\ TheResubmission.input[1] # TheResubmission.input[2]
    /\ responses[2].id # responses[1].id

====
